---- MODULE Spec2Model ----
(***************************************************************************)
(* Notification relay of src/main.py: a Flask route /notify (the Gateway,  *)
(* run in a daemon thread) hands send_discord_message coroutines to the    *)
(* event loop of a discord.py bot (the Connection Manager, bot.run in the  *)
(* main thread) through bot.loop.call_soon_threadsafe.                     *)
(***************************************************************************)
EXTENDS Integers, Sequences, FiniteSets, TLC

\* ------------------------------------------------------------------------
\* Bounds and input domains
\* ------------------------------------------------------------------------

\* number of requests of a multi-request workload
MaxRequests == 2

\* Python's None, as it appears in header and JSON lookups (dict.get)
None == "None"

\* os.getenv("SECRET_API_KEY")
API_SECRET == "s3cret"

ApiKeys == {API_SECRET, "wrong", None}

\* what the body of a POST is to Flask: not JSON by content type, JSON content
\* type with unparseable (or no) text, JSON that parses to a falsy value
\* ({} [] null 0 ""), JSON that parses to a non-empty array, a JSON object
Bodies == {"not_json", "invalid_json", "falsy_json", "array", "object"}

Modes == {None, "", "dm", "channel", "sms"}
Messages == {None, "", "hi", "hello"}
Links == {"", "http://x"}
UserIds == {None, "", "12345", "abc"}
ChannelIds == {None, "999", "9x"}

Request(method, api_key, body, mode, message, link, user_id, channel_id) ==
    [method |-> method, api_key |-> api_key, body |-> body, mode |-> mode,
     message |-> message, link |-> link, user_id |-> user_id,
     channel_id |-> channel_id]

HealthChecks ==
    {Request(m, k, "none", None, None, "", None, None) :
        m \in {"GET", "HEAD"}, k \in ApiKeys}

BadBodyPosts ==
    {Request("POST", k, b, None, None, "", None, None) :
        k \in ApiKeys, b \in Bodies \ {"object"}}

ObjectPosts ==
    {Request("POST", k, "object", mo, me, l, u, c) :
        k \in ApiKeys, mo \in Modes, me \in Messages, l \in Links,
        u \in UserIds, c \in ChannelIds}

AllRequests == HealthChecks \cup BadBodyPosts \cup ObjectPosts

\* the request shapes that multi-request workloads are made of
CommonRequests ==
    { Request("GET", None, "none", None, None, "", None, None),
      Request("POST", API_SECRET, "object", "dm", "hi", "", "12345", None),
      Request("POST", API_SECRET, "object", "dm", "hi", "", None, None) }

\* a workload is any single request, or MaxRequests requests of common shape
Workloads ==
    {<<r>> : r \in AllRequests} \cup [1..MaxRequests -> CommonRequests]

\* ------------------------------------------------------------------------
\* Pure helpers of the handler and of the coroutine
\* ------------------------------------------------------------------------

\* Python truthiness of an optional string: `not v`
Falsy(v) == v = None \/ v = ""

Digits == <<"0", "1", "2", "3", "4", "5", "6", "7", "8", "9">>

IsDigit(c) == \E d \in 1..10 : Digits[d] = c

DigitVal(c) == (CHOOSE d \in 1..10 : Digits[d] = c) - 1

RECURSIVE DigitsVal(_, _)
\* value of the decimal digit string s, acc being the value of what was read
DigitsVal(s, acc) ==
    IF Len(s) = 0 THEN acc
    ELSE DigitsVal(SubSeq(s, 2, Len(s)), acc * 10 + DigitVal(SubSeq(s, 1, 1)))

AllDigits(s) == \A i \in 1..Len(s) : IsDigit(SubSeq(s, i, i))

\* int() that reads the first character only
ParseInt_first_char(s) ==
    IF Len(s) > 0 /\ IsDigit(SubSeq(s, 1, 1))
    THEN [ok |-> TRUE, val |-> DigitVal(SubSeq(s, 1, 1))]
    ELSE [ok |-> FALSE, val |-> 0]

\* int(s) of a str: an optional sign and decimal digits; anything else is
\* ValueError (ok = FALSE)
ParseInt(s) ==
    LET signed == Len(s) > 0 /\ SubSeq(s, 1, 1) \in {"+", "-"}
        digits == IF signed THEN SubSeq(s, 2, Len(s)) ELSE s
    IN  IF Len(digits) > 0 /\ AllDigits(digits)
        THEN [ok |-> TRUE,
              val |-> IF signed /\ SubSeq(s, 1, 1) = "-"
                      THEN 0 - DigitsVal(digits, 0) ELSE DigitsVal(digits, 0)]
        ELSE [ok |-> FALSE, val |-> 0]

\* the link appended after a single line break
full_message_one_newline(message, link) ==
    IF ~Falsy(link) THEN message \o "\n" \o link ELSE message

\* full_message = f"{message}\n\n{link}" if link else message
full_message(message, link) ==
    IF ~Falsy(link) THEN message \o "\n\n" \o link ELSE message

\* ------------------------------------------------------------------------
\* The Gateway: notify()
\* ------------------------------------------------------------------------

Reply(code, body, schedule) ==
    [code |-> code, body |-> body, schedule |-> schedule]

\* a GET branch that goes on to schedule a send
get_response_scheduling ==
    Reply(200, "Bot is awake and responding to GET.", TRUE)

\* the GET branch
get_response ==
    Reply(200, "Bot is awake and responding to GET.", FALSE)

\* a HEAD branch that reports the service as unavailable
head_response_unavailable == Reply(503, "", FALSE)

\* the HEAD branch
head_response == Reply(200, "", FALSE)

\* whether the POST branch compares the api-key header with API_SECRET: the
\* block that does it is commented out
api_key_checked == FALSE

\* request.is_json: the content type is a JSON one
is_json(rq) == rq.body # "not_json"

\* request.get_json() raises BadRequest when the text does not parse; the
\* exception lands in the handler's  except Exception
get_json_raises(rq) == rq.body = "invalid_json"

\* data.get raises AttributeError when the parsed value is a list; it lands
\* in the handler's  except Exception  too
data_get_raises(rq) == rq.body = "array"

\* bot.loop and bot.loop.is_running()
loop_available(loop_is_running) == loop_is_running

\* the POST branch, up to the response or to the decision to schedule
post_response(rq, loop_is_running) ==
    IF api_key_checked /\ rq.api_key # API_SECRET
    THEN Reply(401, "Unauthorized", FALSE)
    ELSE IF ~is_json(rq)
    THEN Reply(400, "Request must be JSON", FALSE)
    ELSE IF get_json_raises(rq)
    THEN Reply(500, "Internal server error processing request", FALSE)
    ELSE IF rq.body = "falsy_json"
    THEN Reply(400, "Missing or invalid JSON body", FALSE)
    ELSE IF data_get_raises(rq)
    THEN Reply(500, "Internal server error processing request", FALSE)
    ELSE IF Falsy(rq.mode) \/ Falsy(rq.message)
    THEN Reply(400, "Missing 'mode' or 'message' fields", FALSE)
    ELSE IF loop_available(loop_is_running)
    THEN Reply(200, "Message queued for sending", TRUE)
    ELSE Reply(503, "Internal server error: Bot not ready or loop unavailable",
               FALSE)

\* what notify() answers to rq, and whether it schedules a coroutine
notify_response(rq, loop_is_running) ==
    IF rq.method = "GET" THEN get_response
    ELSE IF rq.method = "HEAD" THEN head_response
    ELSE IF rq.method = "POST" THEN post_response(rq, loop_is_running)
    ELSE Reply(405, "Method Not Allowed", FALSE)

\* ------------------------------------------------------------------------
\* State
\* ------------------------------------------------------------------------

VARIABLES
    botState,     \* where the main thread is: before bot.run, inside it
                  \* (Connecting, Ready), after it (Stopped), process gone
    raised,       \* the exception bot.run ended with, None for a plain return
    ready,        \* bot.is_ready(), what wait_until_ready waits for
    loopRunning,  \* bot.loop.is_running()
    exitStatus,   \* the process's exit status once botState = "Exited"
    reqs,         \* the HTTP requests: input, handler position, response
    callbacks,    \* callbacks handed to the loop by call_soon_threadsafe
    tasks         \* the send_discord_message task of each request

vars == <<botState, raised, ready, loopRunning, exitStatus, reqs, callbacks,
          tasks>>

botVars == <<botState, raised, ready, loopRunning, exitStatus>>

NewReq(rq) ==
    [input |-> rq, pc |-> "pending", code |-> 0, body |-> "",
     scheduled |-> FALSE, readySeen |-> FALSE, loopSeen |-> FALSE]

NewTask ==
    [pc |-> "none", warnings |-> 0, errors |-> 0, resolves |-> <<>>,
     handle |-> "none", sends |-> <<>>, delivered |-> FALSE]

Init ==
    /\ botState = "NotStarted"
    /\ raised = None
    /\ ready = FALSE
    /\ loopRunning = FALSE
    /\ exitStatus = 0
    /\ \E w \in Workloads : reqs = [i \in 1..Len(w) |-> NewReq(w[i])]
    /\ callbacks = <<>>
    /\ tasks = [i \in DOMAIN reqs |-> NewTask]

Alive == botState # "Exited"

\* ------------------------------------------------------------------------
\* Gateway actions
\* ------------------------------------------------------------------------

\* a handler that calls asyncio.create_task itself, in its worker thread,
\* instead of handing a callback to the loop
notify_creating_task(i) ==
    /\ Alive
    /\ reqs[i].pc = "pending"
    /\ \A j \in 1..(i - 1) : reqs[j].pc # "pending"
    /\ LET res == notify_response(reqs[i].input, loopRunning)
       IN  /\ reqs' = [reqs EXCEPT ![i] =
                  [@ EXCEPT !.pc = IF res.schedule THEN "scheduled" ELSE "done",
                            !.code = IF res.schedule THEN 0 ELSE res.code,
                            !.body = IF res.schedule THEN "" ELSE res.body,
                            !.scheduled = res.schedule,
                            !.readySeen = ready,
                            !.loopSeen = loopRunning]]
           /\ tasks' = IF res.schedule
                       THEN [tasks EXCEPT ![i].pc = "created"] ELSE tasks
    /\ UNCHANGED <<botVars, callbacks>>

\* a handler that goes on to answer "queued" without the call of
\* bot.loop.call_soon_threadsafe
notify_unsubmitted(i) ==
    /\ Alive
    /\ reqs[i].pc = "pending"
    /\ \A j \in 1..(i - 1) : reqs[j].pc # "pending"
    /\ LET res == notify_response(reqs[i].input, loopRunning)
       IN  reqs' = [reqs EXCEPT ![i] =
                  [@ EXCEPT !.pc = IF res.schedule THEN "scheduled" ELSE "done",
                            !.code = IF res.schedule THEN 0 ELSE res.code,
                            !.body = IF res.schedule THEN "" ELSE res.body,
                            !.scheduled = res.schedule,
                            !.readySeen = ready,
                            !.loopSeen = loopRunning]]
    /\ UNCHANGED <<botVars, tasks, callbacks>>

\* notify() handles request i, from its first line to an early return or to
\* call_soon_threadsafe
notify(i) ==
    /\ Alive
    /\ reqs[i].pc = "pending"
    /\ \A j \in 1..(i - 1) : reqs[j].pc # "pending"
    /\ LET res == notify_response(reqs[i].input, loopRunning)
       IN  /\ reqs' = [reqs EXCEPT ![i] =
                  [@ EXCEPT !.pc = IF res.schedule THEN "scheduled" ELSE "done",
                            !.code = IF res.schedule THEN 0 ELSE res.code,
                            !.body = IF res.schedule THEN "" ELSE res.body,
                            !.scheduled = res.schedule,
                            !.readySeen = ready,
                            !.loopSeen = loopRunning]]
           /\ callbacks' = IF res.schedule THEN Append(callbacks, i)
                           ELSE callbacks
    /\ UNCHANGED <<botVars, tasks>>

\* a handler that waits for the coroutine's result before it answers
notify_return_waiting(i) ==
    /\ Alive
    /\ reqs[i].pc = "scheduled"
    /\ tasks[i].pc = "done"
    /\ reqs' = [reqs EXCEPT ![i] =
           [@ EXCEPT !.pc = "done", !.code = 200,
                     !.body = "Message queued for sending"]]
    /\ UNCHANGED <<botVars, callbacks, tasks>>

\* return jsonify({"status": "Message queued for sending"}), 200
notify_return(i) ==
    /\ Alive
    /\ reqs[i].pc = "scheduled"
    /\ reqs' = [reqs EXCEPT ![i] =
           [@ EXCEPT !.pc = "done", !.code = 200,
                     !.body = "Message queued for sending"]]
    /\ UNCHANGED <<botVars, callbacks, tasks>>

\* ------------------------------------------------------------------------
\* The scheduled unit: send_discord_message() on the bot's event loop
\* ------------------------------------------------------------------------

\* what bot.get_channel finds in the cache, what fetch_user / fetch_channel
\* and user.send / channel.send end with
CacheOutcomes == {"miss", "TextChannel", "VoiceChannel"}
FetchUserOutcomes == {"User", "NotFound", "Forbidden", "HTTPException"}
FetchChannelOutcomes ==
    {"TextChannel", "VoiceChannel", "NotFound", "Forbidden", "HTTPException"}
SendOutcomes == {"ok", "Forbidden", "HTTPException"}

Warned(t) == [t EXCEPT !.pc = "done", !.warnings = @ + 1]

Failed(t) == [t EXCEPT !.pc = "done", !.errors = @ + 1]

Resolving(t, op, id, pc) ==
    [t EXCEPT !.pc = pc, !.resolves = Append(@, [op |-> op, id |-> id])]

\* user.send(full_message) / channel.send(full_message) is invoked on the
\* handle that was resolved
Sending(t, kind, id, text, pc) ==
    [t EXCEPT !.pc = pc,
              !.handle = IF kind = "dm" THEN "User" ELSE "TextChannel",
              !.sends = Append(@, [kind |-> kind, id |-> id, text |-> text])]

\* a dm branch without the test for a missing user_id: int(None) raises
\* TypeError, which the coroutine's  except Exception  logs as an error
dm_branch_unchecked(t, rq) ==
    IF Falsy(rq.user_id) THEN Failed(t)
    ELSE IF ~ParseInt(rq.user_id).ok THEN Warned(t)
    ELSE Resolving(t, "fetch_user", ParseInt(rq.user_id).val, "fetch_user")

\* the dm branch from  if mode == "dm"  to  await bot.fetch_user(user_id)
dm_branch(t, rq) ==
    IF Falsy(rq.user_id) THEN Warned(t)
    ELSE IF ~ParseInt(rq.user_id).ok THEN Warned(t)
    ELSE Resolving(t, "fetch_user", ParseInt(rq.user_id).val, "fetch_user")

\* a channel branch without the isinstance(channel, discord.TextChannel) test
channel_found_any_handle(t, rq, channel) ==
    [Sending(t, "channel", ParseInt(rq.channel_id).val,
             full_message(rq.message, rq.link), "channel_send")
        EXCEPT !.handle = channel]

\* what follows once a channel handle is there: the isinstance test, the send
channel_found(t, rq, channel) ==
    IF channel = "TextChannel"
    THEN Sending(t, "channel", ParseInt(rq.channel_id).val,
                 full_message(rq.message, rq.link), "channel_send")
    ELSE Warned([t EXCEPT !.handle = channel])

\* the channel branch from  elif mode == "channel"  to its first await
channel_branch(t, rq, cached) ==
    IF Falsy(rq.channel_id) THEN Warned(t)
    ELSE IF ~ParseInt(rq.channel_id).ok THEN Warned(t)
    ELSE LET id == ParseInt(rq.channel_id).val
             looked == Resolving(t, "get_channel", id, t.pc)
         IN  IF cached = "miss"
             THEN Resolving(looked, "fetch_channel", id, "fetch_channel")
             ELSE channel_found(looked, rq, cached)

\* a body whose last branch is a plain else: every mode other than "dm" is
\* taken as "channel"
send_body_default_channel(t, rq, cached) ==
    IF rq.mode = "dm" THEN dm_branch(t, rq)
    ELSE channel_branch(t, rq, cached)

\* send_discord_message from the return of wait_until_ready to its next await
\* or to its end
send_body(t, rq, cached) ==
    IF rq.mode = "dm" THEN dm_branch(t, rq)
    ELSE IF rq.mode = "channel" THEN channel_branch(t, rq, cached)
    ELSE Warned(t)

\* the loop runs the callback of call_soon_threadsafe: asyncio.create_task
RunCallback ==
    /\ loopRunning
    /\ callbacks # <<>>
    /\ tasks' = [tasks EXCEPT ![Head(callbacks)].pc = "created"]
    /\ callbacks' = Tail(callbacks)
    /\ UNCHANGED <<botVars, reqs>>

\* a first step without  await bot.wait_until_ready()
TaskStart_not_waiting(i) ==
    /\ loopRunning
    /\ tasks[i].pc = "created"
    /\ \E cached \in CacheOutcomes :
         tasks' = [tasks EXCEPT ![i] = send_body(@, reqs[i].input, cached)]
    /\ UNCHANGED <<botVars, reqs, callbacks>>

\* first step of the task: await bot.wait_until_ready() goes on at once when
\* the bot is ready and suspends the task otherwise
TaskStart(i) ==
    /\ loopRunning
    /\ tasks[i].pc = "created"
    /\ \E cached \in CacheOutcomes :
         tasks' = [tasks EXCEPT ![i] =
             IF ready THEN send_body(@, reqs[i].input, cached)
             ELSE [@ EXCEPT !.pc = "wait_until_ready"]]
    /\ UNCHANGED <<botVars, reqs, callbacks>>

\* wait_until_ready returns in a task that was suspended on it
TaskWake(i) ==
    /\ loopRunning
    /\ tasks[i].pc = "wait_until_ready"
    /\ ready
    /\ \E cached \in CacheOutcomes :
         tasks' = [tasks EXCEPT ![i] = send_body(@, reqs[i].input, cached)]
    /\ UNCHANGED <<botVars, reqs, callbacks>>

\* a fetch_user whose failure is not caught in the coroutine and takes the
\* loop, and bot.run with it, down
FetchUserDone_crashing(i) ==
    /\ loopRunning
    /\ tasks[i].pc = "fetch_user"
    /\ \E outcome \in FetchUserOutcomes :
         IF outcome = "User"
         THEN /\ tasks' = [tasks EXCEPT ![i] =
                     Sending(@, "dm", ParseInt(reqs[i].input.user_id).val,
                             full_message(reqs[i].input.message,
                                          reqs[i].input.link), "user_send")]
              /\ UNCHANGED <<botVars, reqs, callbacks>>
         ELSE /\ tasks' = [j \in DOMAIN tasks |->
                     IF j = i THEN Failed(tasks[j])
                     ELSE IF tasks[j].pc \in {"none", "done"} THEN tasks[j]
                     ELSE [tasks[j] EXCEPT !.pc = "cancelled"]]
              /\ botState' = "Stopped"
              /\ raised' = "HTTPException"
              /\ ready' = FALSE
              /\ loopRunning' = FALSE
              /\ callbacks' = <<>>
              /\ UNCHANGED <<exitStatus, reqs>>

\* await bot.fetch_user(user_id) ends; on a user, user.send is invoked
FetchUserDone(i) ==
    /\ loopRunning
    /\ tasks[i].pc = "fetch_user"
    /\ \E outcome \in FetchUserOutcomes :
         tasks' = [tasks EXCEPT ![i] =
             IF outcome = "User"
             THEN Sending(@, "dm", ParseInt(reqs[i].input.user_id).val,
                          full_message(reqs[i].input.message,
                                       reqs[i].input.link), "user_send")
             ELSE Failed(@)]
    /\ UNCHANGED <<botVars, reqs, callbacks>>

\* await bot.fetch_channel(channel_id) ends
FetchChannelDone(i) ==
    /\ loopRunning
    /\ tasks[i].pc = "fetch_channel"
    /\ \E outcome \in FetchChannelOutcomes :
         tasks' = [tasks EXCEPT ![i] =
             IF outcome \in {"TextChannel", "VoiceChannel"}
             THEN channel_found(@, reqs[i].input, outcome)
             ELSE Failed(@)]
    /\ UNCHANGED <<botVars, reqs, callbacks>>

\* a send that is invoked again when it failed
SendDone_retrying(i) ==
    /\ loopRunning
    /\ tasks[i].pc \in {"user_send", "channel_send"}
    /\ \E outcome \in SendOutcomes :
         tasks' = [tasks EXCEPT ![i] =
             IF outcome = "ok" THEN [@ EXCEPT !.pc = "done", !.delivered = TRUE]
             ELSE [@ EXCEPT !.errors = @ + 1,
                            !.sends = Append(@, tasks[i].sends[1])]]
    /\ UNCHANGED <<botVars, reqs, callbacks>>

\* await user.send(...) / await channel.send(...) ends
SendDone(i) ==
    /\ loopRunning
    /\ tasks[i].pc \in {"user_send", "channel_send"}
    /\ \E outcome \in SendOutcomes :
         tasks' = [tasks EXCEPT ![i] =
             IF outcome = "ok" THEN [@ EXCEPT !.pc = "done", !.delivered = TRUE]
             ELSE Failed(@)]
    /\ UNCHANGED <<botVars, reqs, callbacks>>

\* ------------------------------------------------------------------------
\* The Connection Manager: bot.run(BOT_TOKEN) in the main thread
\* ------------------------------------------------------------------------

\* exceptions bot.run can end with while logging in and connecting, and once
\* the session is up
ConnectErrors ==
    {"LoginFailure", "PrivilegedIntentsRequired", "HTTPException",
     "ConnectionClosed"}
SessionErrors == {"ConnectionClosed"}

\* the loop stops: callbacks not yet run are dropped with it, and the tasks
\* that have not ended are cancelled
Cancelled(ts) ==
    [i \in DOMAIN ts |->
        IF ts[i].pc \in {"none", "done"} THEN ts[i]
        ELSE [ts[i] EXCEPT !.pc = "cancelled"]]

\* bot.run(BOT_TOKEN) is entered: the loop runs, login and connect begin
BotRun ==
    /\ botState = "NotStarted"
    /\ botState' = "Connecting"
    /\ loopRunning' = TRUE
    /\ UNCHANGED <<raised, ready, exitStatus, reqs, callbacks, tasks>>

\* the handshake completes: the ready event is set and on_ready runs
on_ready ==
    /\ botState = "Connecting"
    /\ botState' = "Ready"
    /\ ready' = TRUE
    /\ UNCHANGED <<raised, loopRunning, exitStatus, reqs, callbacks, tasks>>

\* bot.run ends with exception e
BotRunRaises(e) ==
    /\ \/ botState = "Connecting" /\ e \in ConnectErrors
       \/ botState = "Ready" /\ e \in SessionErrors
    /\ botState' = "Stopped"
    /\ raised' = e
    /\ ready' = FALSE
    /\ loopRunning' = FALSE
    /\ callbacks' = <<>>
    /\ tasks' = Cancelled(tasks)
    /\ UNCHANGED <<exitStatus, reqs>>

\* bot.run returns (the bot was closed or interrupted)
BotRunReturns ==
    /\ botState \in {"Connecting", "Ready"}
    /\ botState' = "Stopped"
    /\ raised' = None
    /\ ready' = FALSE
    /\ loopRunning' = FALSE
    /\ callbacks' = <<>>
    /\ tasks' = Cancelled(tasks)
    /\ UNCHANGED <<exitStatus, reqs>>

\* the process ends with the given status; the daemon Flask thread with it
Exit(status) ==
    /\ botState' = "Exited"
    /\ exitStatus' = status
    /\ UNCHANGED <<raised, ready, loopRunning, reqs, callbacks, tasks>>

\* a handler of LoginFailure that runs the bot again
except_LoginFailure_retry ==
    /\ botState = "Stopped"
    /\ raised = "LoginFailure"
    /\ botState' = "Connecting"
    /\ raised' = None
    /\ loopRunning' = TRUE
    /\ UNCHANGED <<ready, exitStatus, reqs, callbacks, tasks>>

\* except discord.LoginFailure: exit(1)
except_LoginFailure ==
    /\ botState = "Stopped"
    /\ raised = "LoginFailure"
    /\ Exit(1)

\* except discord.errors.PrivilegedIntentsRequired: exit(1)
except_PrivilegedIntentsRequired ==
    /\ botState = "Stopped"
    /\ raised = "PrivilegedIntentsRequired"
    /\ Exit(1)

\* except Exception: exit(1)
except_Exception ==
    /\ botState = "Stopped"
    /\ raised \notin {None, "LoginFailure", "PrivilegedIntentsRequired"}
    /\ Exit(1)

\* log.info("Bot process has exited.") and the end of the script
script_end ==
    /\ botState = "Stopped"
    /\ raised = None
    /\ Exit(0)

\* ------------------------------------------------------------------------
\* Specification
\* ------------------------------------------------------------------------

Next ==
    \/ \E i \in DOMAIN reqs : notify(i)
    \/ \E i \in DOMAIN reqs : notify_return(i)
    \/ RunCallback
    \/ \E i \in DOMAIN reqs : TaskStart(i)
    \/ \E i \in DOMAIN reqs : TaskWake(i)
    \/ \E i \in DOMAIN reqs : FetchUserDone(i)
    \/ \E i \in DOMAIN reqs : FetchChannelDone(i)
    \/ \E i \in DOMAIN reqs : SendDone(i)
    \/ BotRun
    \/ on_ready
    \/ \E e \in ConnectErrors : BotRunRaises(e)
    \/ BotRunReturns
    \/ except_LoginFailure
    \/ except_PrivilegedIntentsRequired
    \/ except_Exception
    \/ script_end

Spec == Init /\ [][Next]_vars

\* ------------------------------------------------------------------------
\* Properties
\* ------------------------------------------------------------------------

Ids == DOMAIN reqs

In(i) == reqs[i].input

Handled(i) == reqs[i].pc # "pending"

IsPost(i) == In(i).method = "POST"

IsHealthCheck(i) == In(i).method \in {"GET", "HEAD"}

\* a POST that passes the body validation of the Gateway
WellFormed(i) ==
    /\ IsPost(i)
    /\ In(i).body = "object"
    /\ ~Falsy(In(i).mode)
    /\ ~Falsy(In(i).message)

\* the body shapes the Gateway is to refuse with 400
Malformed(i) ==
    /\ IsPost(i)
    /\ \/ In(i).body \in {"not_json", "invalid_json", "falsy_json"}
       \/ In(i).body = "object" /\ (Falsy(In(i).mode) \/ Falsy(In(i).message))

\* the response text carries the word "queued"
SaysQueued(b) == \E k \in 1..(Len(b) - 5) : SubSeq(b, k, k + 5) = "queued"

\* nothing of request i reached the Dispatch Bridge
NothingScheduled(i) ==
    /\ ~reqs[i].scheduled
    /\ tasks[i].pc = "none"
    /\ tasks[i].sends = <<>>
    /\ \A k \in 1..Len(callbacks) : callbacks[k] # i

\* C1: a POST whose API key is absent or differs from the secret is answered
\* 401 and nothing of it is scheduled or sent, whatever the readiness (stated
\* where no other test of the handler answers first: the body is well formed
\* and the loop runs)
C1_UnauthorizedRejected ==
    \A i \in Ids :
        (WellFormed(i) /\ Handled(i) /\ reqs[i].loopSeen
            /\ In(i).api_key # API_SECRET)
            => (reqs[i].code = 401 /\ NothingScheduled(i))

\* C2: a POST with a malformed body (not JSON, empty or unparseable, mode or
\* message missing or empty) is answered 400 and nothing of it is scheduled
C2_MalformedRejected ==
    \A i \in Ids :
        (Malformed(i) /\ Handled(i) /\ In(i).api_key = API_SECRET)
            => (reqs[i].code = 400 /\ NothingScheduled(i))

\* C3: a well-formed, authenticated POST handled while ready is false is
\* answered 503 and nothing of it is scheduled or sent
C3_NotReadyRejected ==
    \A i \in Ids :
        (WellFormed(i) /\ Handled(i) /\ In(i).api_key = API_SECRET
            /\ ~reqs[i].readySeen)
            => (reqs[i].code = 503 /\ NothingScheduled(i))

\* the case of C4: an authenticated dm POST with a message and an integer
\* user_id, handled while ready
DmCase(i) ==
    /\ WellFormed(i)
    /\ In(i).api_key = API_SECRET
    /\ In(i).mode = "dm"
    /\ ~Falsy(In(i).user_id)
    /\ AllDigits(In(i).user_id)
    /\ reqs[i].readySeen

\* C4: a valid dm POST handled while ready is answered 200 with a "queued"
\* status, and once its user is resolved exactly one direct-message send is
\* invoked, on that user id and with that request's composed text (user_id
\* "12345", message "hi": "hi" to user 12345); no other send is made for it
C4_DmSentToUser ==
    \A i \in Ids : DmCase(i) =>
        /\ reqs[i].scheduled
        /\ reqs[i].pc = "done" => (reqs[i].code = 200 /\ SaysQueued(reqs[i].body))
        /\ \A k \in 1..Len(tasks[i].sends) :
             /\ tasks[i].sends[k].kind = "dm"
             /\ (In(i).user_id = "12345") => (tasks[i].sends[k].id = 12345)
             /\ (In(i).message = "hi" /\ In(i).link = "")
                    => (tasks[i].sends[k].text = "hi")
        /\ Len(tasks[i].sends) = IF tasks[i].handle = "User" THEN 1 ELSE 0

C4_Witness ==
    \E i \in Ids :
        /\ DmCase(i)
        /\ In(i).user_id = "12345" /\ In(i).message = "hi" /\ In(i).link = ""
        /\ reqs[i].code = 200
        /\ tasks[i].delivered
        /\ tasks[i].sends = <<[kind |-> "dm", id |-> 12345, text |-> "hi"]>>

\* C5: the text of every send is message + "\n\n" + link when link is non-empty
\* and message alone otherwise; channel_id "999", message "hello", link
\* "http://x" is sent to channel 999 as "hello\n\nhttp://x"
C5_ComposedText ==
    \A i \in Ids : \A k \in 1..Len(tasks[i].sends) :
        LET snd == tasks[i].sends[k]
        IN  /\ snd.text = IF In(i).link \notin {None, ""}
                          THEN In(i).message \o "\n\n" \o In(i).link
                          ELSE In(i).message
            /\ (In(i).mode = "channel" /\ In(i).channel_id = "999"
                    /\ In(i).message = "hello" /\ In(i).link = "http://x")
                 => snd = [kind |-> "channel", id |-> 999,
                           text |-> "hello\n\nhttp://x"]

C5_Witness ==
    \E i \in Ids :
        /\ In(i).mode = "channel" /\ In(i).channel_id = "999"
        /\ In(i).message = "hello" /\ In(i).link = "http://x"
        /\ tasks[i].sends # <<>>
        /\ tasks[i].delivered

\* the case of C6: a well-formed POST whose mode names an id that is absent,
\* handled while ready
MissingIdCase(i) ==
    /\ WellFormed(i)
    /\ \/ In(i).mode = "dm" /\ In(i).user_id \in {None, ""}
       \/ In(i).mode = "channel" /\ In(i).channel_id \in {None, ""}
    /\ reqs[i].readySeen

RECURSIVE SumOver(_, _)
\* the sum of f over the set S of request ids
SumOver(f, S) ==
    IF S = {} THEN 0
    ELSE LET i == CHOOSE j \in S : TRUE IN f[i] + SumOver(f, S \ {i})

MissingIdUnits == {i \in Ids : MissingIdCase(i)}

\* C6: a valid POST whose mode is "dm" without user_id (or "channel" without
\* channel_id), handled while ready, is answered 200 and its unit logs one
\* warning and makes no resolve and no send; n such units that have run made
\* n warnings and no send
C6_MissingIdWarnsOnly ==
    /\ \A i \in MissingIdUnits :
        /\ reqs[i].scheduled
        /\ reqs[i].pc = "done" => reqs[i].code = 200
        /\ tasks[i].resolves = <<>>
        /\ tasks[i].sends = <<>>
        /\ tasks[i].errors = 0
        /\ tasks[i].pc \in {"none", "created", "done", "cancelled"}
    /\ SumOver([i \in Ids |-> tasks[i].warnings], MissingIdUnits)
         = Cardinality({i \in MissingIdUnits : tasks[i].pc = "done"})
    /\ SumOver([i \in Ids |-> Len(tasks[i].sends)], MissingIdUnits) = 0

C6_Witness ==
    /\ Cardinality(MissingIdUnits) = 2
    /\ \A i \in MissingIdUnits :
         tasks[i].pc = "done" /\ tasks[i].warnings = 1 /\ reqs[i].code = 200

\* the step in which notify() handles request i
HandledNow(i) == reqs[i].pc = "pending" /\ reqs'[i].pc # "pending"

\* C7: handling a GET or a HEAD needs no API key and changes neither the
\* readiness, the session, the loop's queue nor any scheduled unit
C7_HealthChecksChangeNothing ==
    [][\A i \in Ids : (IsHealthCheck(i) /\ HandledNow(i)) =>
          /\ reqs'[i].code = 200
          /\ ~reqs'[i].scheduled
          /\ UNCHANGED <<botState, raised, ready, loopRunning, exitStatus,
                         callbacks, tasks>>]_vars

C7_Witness ==
    \E i \in Ids :
        /\ IsHealthCheck(i) /\ In(i).api_key # API_SECRET
        /\ reqs[i].code = 200
        /\ loopRunning

C9_ReconnectsAfterDrop ==
    [][(botState = "Ready" /\ raised' \in SessionErrors) =>
          (~ready' /\ botState' \notin {"Stopped", "Exited"})]_vars

\* the handshake was rejected for an invalid credential
Fatal == raised = "LoginFailure"

\* C10: once the handshake is rejected for an invalid credential the bot is
\* never connecting or ready again, ready stays false, the exit is the step
\* the main thread can take, nothing follows it, and the exit status is 1
C10_FatalIsTerminal ==
    /\ [](Fatal => /\ botState \in {"Stopped", "Exited"}
                   /\ ~ready /\ ~loopRunning
                   /\ botState = "Stopped" => ENABLED except_LoginFailure
                   /\ botState = "Exited" => exitStatus = 1)
    /\ [][Fatal => (Fatal' /\ botState' \in {"Stopped", "Exited"})]_vars
    /\ [][botState = "Exited" => UNCHANGED vars]_vars

C10_Witness == Fatal /\ botState = "Exited" /\ exitStatus = 1

\* failures of a connection attempt that are not a rejected credential: a
\* rate limit, a network error
TransientErrors == {"HTTPException", "ConnectionClosed"}

\* C11: when a connection attempt fails with a rate limit or a transient
\* network error, ready is false and the Connection Manager goes on to back
\* off and connect again: bot.run has not stopped and the process does not end
C11_RetriesAfterTransientFailure ==
    [][(botState = "Connecting" /\ raised' \in TransientErrors) =>
          (~ready' /\ botState' \notin {"Stopped", "Exited"})]_vars

\* the step in which the delivery of request i fails (an error is logged)
FailsNow(i) == tasks'[i].errors > tasks[i].errors

\* C12: a failure inside one scheduled delivery ends that delivery only: the
\* step leaves the bot, its readiness, the loop's queue and every other unit
\* as they were, the process does not exit, and the units scheduled before
\* or after it can still take their steps
C12_FailureIsolated ==
    /\ [](\A i \in Ids : tasks[i].errors > 0 =>
            /\ tasks[i].errors = 1
            /\ tasks[i].pc = "done"
            /\ loopRunning =>
                 /\ callbacks # <<>> => ENABLED RunCallback
                 /\ \A j \in Ids \ {i} :
                      /\ tasks[j].pc = "created" => ENABLED TaskStart(j)
                      /\ tasks[j].pc = "fetch_user" => ENABLED FetchUserDone(j)
                      /\ tasks[j].pc = "user_send" => ENABLED SendDone(j))
    /\ [][\A i \in Ids : FailsNow(i) =>
            /\ UNCHANGED <<botState, raised, ready, loopRunning, exitStatus>>
            /\ loopRunning' /\ botState' # "Exited"
            /\ UNCHANGED <<callbacks, reqs>>
            /\ \A j \in Ids \ {i} : tasks'[j] = tasks[j]]_vars

C12_Witness ==
    \E i, j \in Ids :
        /\ i < j
        /\ tasks[i].errors = 1 /\ ~tasks[i].delivered
        /\ tasks[j].delivered
        /\ botState = "Ready" /\ ready /\ loopRunning

\* C13: the answer to an accepted POST does not depend on the delivery: once
\* the work item is submitted the handler can return "queued" whatever the
\* unit is doing (not started, waiting for readiness, failed), the answer is
\* the same for every outcome, and nothing changes it afterwards
C13_ResponseIndependentOfDelivery ==
    /\ [](\A i \in Ids :
            /\ (reqs[i].pc = "scheduled" /\ Alive) => ENABLED notify_return(i)
            /\ (reqs[i].scheduled /\ reqs[i].pc = "done") =>
                  (reqs[i].code = 200 /\ SaysQueued(reqs[i].body)))
    /\ [][\A i \in Ids : reqs[i].pc = "done" => reqs'[i] = reqs[i]]_vars

C13_Witness ==
    \E i \in Ids :
        /\ reqs[i].pc = "done" /\ reqs[i].code = 200
        /\ tasks[i].pc = "wait_until_ready"
        /\ ~ready

\* a step of the Gateway: the handler of some request moves
GatewayStep == reqs' # reqs

\* a step of the scheduled unit of request i: it is created, resolves, sends,
\* logs or ends (its cancellation with the loop is not a step of the unit)
UnitStep(i) == tasks'[i] # tasks[i] /\ tasks'[i].pc # "cancelled"

\* C14: every step of a scheduled unit (resolve, send and the rest) is a step
\* of the running loop and never of a Gateway handler; a Gateway step only
\* reads the loop's state and appends a callback to the loop's queue; and no
\* step moves more than one unit
C14_SessionOnlyOnLoop ==
    [][/\ GatewayStep =>
            /\ tasks' = tasks
            /\ UNCHANGED <<botState, raised, ready, loopRunning, exitStatus>>
            /\ \/ callbacks' = callbacks
               \/ \E i \in Ids : callbacks' = Append(callbacks, i)
       /\ \A i \in Ids : UnitStep(i) =>
            /\ loopRunning
            /\ ~GatewayStep
            /\ UNCHANGED <<botState, raised, ready, loopRunning, exitStatus>>
       /\ Cardinality({i \in Ids : UnitStep(i)}) <= 1]_vars

C14_Witness ==
    \E i, j \in Ids :
        /\ tasks[i].pc = "fetch_user"
        /\ tasks[j].pc = "user_send"
        /\ reqs[i].pc = "scheduled"

\* C15: delivery is at most once: at most one send is ever invoked for a
\* request, none for a request that was not scheduled, and a send once
\* invoked is never followed by another for the same request, whether it
\* failed, was cancelled with the loop or succeeded
C15_AtMostOnce ==
    /\ [](\A i \in Ids :
            /\ Len(tasks[i].sends) <= 1
            /\ ~reqs[i].scheduled => tasks[i].sends = <<>>)
    /\ [][\A i \in Ids :
            tasks[i].sends # <<>> => tasks'[i].sends = tasks[i].sends]_vars

C15_Witness ==
    \E i \in Ids :
        /\ reqs[i].scheduled
        /\ Len(tasks[i].sends) = 1
        /\ tasks[i].pc = "done" /\ tasks[i].errors = 1 /\ ~tasks[i].delivered

\* the unit of request i has not passed wait_until_ready
BeforeReady(i) == tasks[i].pc \in {"none", "created", "wait_until_ready"}

\* the step in which the unit of request i issues a resolve or a send
SessionOpNow(i) ==
    \/ tasks'[i].resolves # tasks[i].resolves
    \/ tasks'[i].sends # tasks[i].sends

Queued(i) == \E k \in 1..Len(callbacks) : callbacks[k] = i

\* C17: a work item whose scheduling succeeded (here: accepted while the bot
\* was ready) is never dropped and never cancelled: until it is started its
\* callback stays in the loop's queue, and once started it is not cancelled
C17_NeverDropped ==
    \A i \in Ids :
        (reqs[i].scheduled /\ reqs[i].readySeen) =>
            /\ tasks[i].pc # "cancelled"
            /\ tasks[i].pc = "none" => Queued(i)

\* the id that the mode of request i selects: user_id for "dm", channel_id
\* for "channel"
SelectedId(i) ==
    IF reqs[i].input.mode = "dm" THEN reqs[i].input.user_id
    ELSE reqs[i].input.channel_id

\* the selected id is there and is a decimal integer
SelectedIdParses(i) ==
    /\ SelectedId(i) # None
    /\ SelectedId(i) # ""
    /\ AllDigits(SelectedId(i))

\* the unit of request i resolved id with operation op
Resolved(i, op, id) ==
    \E k \in 1..Len(tasks[i].resolves) :
        tasks[i].resolves[k] = [op |-> op, id |-> id]

\* C18: a send is invoked only when the preconditions of its mode hold: the
\* mode is "dm" or "channel", the id that the mode selects is present and an
\* integer, every resolve and the send use that id and no other, the id was
\* resolved to a handle, and a channel handle is a text channel; a unit whose
\* id is missing or unparseable, whose resolve failed or whose channel is no
\* text channel ends with a log entry and no send
C18_SendOnlyAfterPreconditions ==
    \A i \in Ids :
        LET t  == tasks[i]
            rq == reqs[i].input
        IN  /\ t.sends # <<>> =>
                 /\ rq.mode \in {"dm", "channel"}
                 /\ SelectedIdParses(i)
                 /\ t.sends[1].kind = rq.mode
                 /\ t.sends[1].id = DigitsVal(SelectedId(i), 0)
                 /\ \A k \in 1..Len(t.resolves) :
                       t.resolves[k].id = DigitsVal(SelectedId(i), 0)
                 /\ rq.mode = "dm" =>
                       /\ t.handle = "User"
                       /\ Resolved(i, "fetch_user", t.sends[1].id)
                 /\ rq.mode = "channel" =>
                       /\ t.handle = "TextChannel"
                       /\ \/ Resolved(i, "get_channel", t.sends[1].id)
                          \/ Resolved(i, "fetch_channel", t.sends[1].id)
            /\ (rq.mode \in {"dm", "channel"} /\ ~SelectedIdParses(i)) =>
                 /\ t.resolves = <<>> /\ t.sends = <<>>
                 /\ t.pc \in {"none", "created", "wait_until_ready",
                              "done", "cancelled"}
                 /\ t.pc = "done" => (t.warnings = 1 /\ t.errors = 0)
            /\ (t.pc = "done" /\ t.handle \notin {"User", "TextChannel"}) =>
                 /\ t.sends = <<>>
                 /\ t.warnings + t.errors = 1
            /\ t.warnings > 0 => t.sends = <<>>

C18_Witness ==
    \E i \in Ids :
        /\ reqs[i].input.mode = "channel"
        /\ reqs[i].input.user_id = "12345"
        /\ reqs[i].input.channel_id = "999"
        /\ tasks[i].resolves = << [op |-> "get_channel", id |-> 999],
                                  [op |-> "fetch_channel", id |-> 999] >>
        /\ tasks[i].handle = "TextChannel"
        /\ Len(tasks[i].sends) = 1
        /\ tasks[i].sends[1].kind = "channel"
        /\ tasks[i].sends[1].id = 999

\* the status codes with which the Gateway rejects a request
RejectCodes == {400, 401, 405, 500, 503}

\* C19: a POST is answered "queued" only after its work item was handed to
\* the loop: the handling step that schedules appends the callback to the
\* loop's queue and has not answered yet, and the answering step finds the
\* request scheduled; and every send belongs to a scheduled request: a
\* request answered 400, 401, 405, 500 or 503 has no callback, no unit and
\* no send
C19_QueuedMeansSubmitted ==
    /\ [](\A i \in Ids :
            /\ (IsPost(i) /\ (reqs[i].code = 200 \/ SaysQueued(reqs[i].body)))
                  => (reqs[i].scheduled /\ reqs[i].code = 200
                        /\ SaysQueued(reqs[i].body))
            /\ (tasks[i].sends # <<>> \/ tasks[i].pc # "none" \/ Queued(i))
                  => (reqs[i].scheduled /\ reqs[i].code \in {0, 200})
            /\ reqs[i].code \in RejectCodes
                  => (~reqs[i].scheduled /\ ~Queued(i) /\ tasks[i] = NewTask))
    /\ [][\A i \in Ids :
            /\ (HandledNow(i) /\ reqs'[i].scheduled)
                  => (callbacks' = Append(callbacks, i) /\ reqs'[i].code = 0)
            /\ (IsPost(i) /\ reqs[i].code # 200 /\ reqs'[i].code = 200)
                  => (reqs[i].scheduled /\ reqs[i].pc = "scheduled"
                        /\ callbacks' = callbacks)]_vars

C19_Witness ==
    \E i, j \in Ids :
        /\ IsPost(i) /\ reqs[i].code = 200 /\ SaysQueued(reqs[i].body)
        /\ Queued(i) /\ tasks[i].pc = "none"
        /\ IsPost(j) /\ reqs[j].code = 200
        /\ tasks[j].sends # <<>>

\* the case of C20: a POST with a JSON object, a non-empty message and a
\* non-empty mode that is neither "dm" nor "channel"
UnknownModeCase(i) == WellFormed(i) /\ In(i).mode \notin {"dm", "channel"}

\* C20: a POST whose mode is non-empty and neither "dm" nor "channel" is not
\* rejected: handled while ready it is scheduled and answered "queued", and
\* its unit resolves nothing, sends nothing and ends with one logged warning
C20_UnknownModeQueuedThenWarned ==
    \A i \in Ids : UnknownModeCase(i) =>
        /\ (Handled(i) /\ reqs[i].readySeen) =>
              /\ reqs[i].scheduled
              /\ reqs[i].code \in {0, 200}
              /\ reqs[i].pc = "done" =>
                    (reqs[i].code = 200 /\ SaysQueued(reqs[i].body))
        /\ tasks[i].resolves = <<>>
        /\ tasks[i].sends = <<>>
        /\ tasks[i].handle = "none"
        /\ tasks[i].errors = 0
        /\ tasks[i].pc \in {"none", "created", "wait_until_ready", "done",
                            "cancelled"}
        /\ tasks[i].warnings = IF tasks[i].pc = "done" THEN 1 ELSE 0

C20_Witness ==
    \E i \in Ids :
        /\ UnknownModeCase(i)
        /\ In(i).mode = "sms"
        /\ In(i).user_id = "12345" /\ In(i).channel_id = "999"
        /\ reqs[i].readySeen
        /\ reqs[i].code = 200 /\ SaysQueued(reqs[i].body)
        /\ tasks[i].pc = "done" /\ tasks[i].warnings = 1

====
